---- MODULE Spec2Model ----
(***************************************************************************)
(* A model of one run of volcano.py: the __main__ block and the functions  *)
(* it calls (ingest, sign_in_to_gis, get_portal_item, replace_flayer).     *)
(* The external collaborators (source API, local disk, keyring, portal)    *)
(* answer nondeterministically from small sets; the program's reaction to  *)
(* each answer is translated from the source.                              *)
(*                                                                         *)
(* Text (log messages, printed lines, exception messages, file content) is *)
(* a sequence of string tokens, so that "the text contains the value v" is *)
(* a membership test.                                                      *)
(***************************************************************************)
EXTENDS Integers, Sequences, FiniteSets, TLC

VARIABLES
    pc,               \* position of the run in the script
    config,           \* the parsed config.ini: present keys -> values
    keyring,          \* the OS secret store
    jsonErrorIsRequestException, \* the installed requests build (see JsonErrorType)
    file,             \* content of Volcano.geojson
    file0,            \* content of Volcano.geojson before the run
    log,              \* volcano.log entries appended by this run
    stdout,           \* lines printed by this run
    exitStatus,       \* process exit status (0 unless sys.exit is called)
    clock,            \* datetime.datetime.now()
    start,            \* main: start
    end,              \* main: end
    data,             \* ingest: data
    geojson_file,     \* main: geojson_file
    password,         \* main: value of kr.get_password(...)
    portal,           \* main: portal
    feature_layer,    \* main: feature_layer
    exc,              \* the exception in flight or caught
    failedAt,         \* step at which the run failed, "none" while it has not
    caughtBy,         \* which handler caught the failure: "ingest", "main", ""
    response,         \* what the source answered to the GET
    itemOutcome,      \* what the portal answered to the item lookup
    calls,            \* invocations of each external operation
    signInArg,        \* the password handed to GIS(...)
    overwriteArg      \* the arguments handed to manager.overwrite

vars == <<pc, config, keyring, jsonErrorIsRequestException, file, file0, log,
          stdout, exitStatus, clock, start, end, data, geojson_file, password,
          portal, feature_layer, exc, failedAt, caughtBy, response,
          itemOutcome, calls, signInArg, overwriteArg>>

env == <<config, keyring, jsonErrorIsRequestException, file0>>

\* Longest duration of one network operation, in clock ticks.
MaxStepTime == 2

None == "None"

----------------------------------------------------------------------------
(* Settings, secret store, source and portal.                              *)

SourceUrl == "https://example/api.geojson"
PortalUrl == "https://org.example.com"
Username  == "svc"
ItemId    == "abc123"

FullConfig ==
    [k \in {"USGS.url", "PORTAL.url", "PORTAL.username", "PORTAL.item_id"} |->
        CASE k = "USGS.url"        -> SourceUrl
          [] k = "PORTAL.url"      -> PortalUrl
          [] k = "PORTAL.username" -> Username
          [] k = "PORTAL.item_id"  -> ItemId]

\* config.read ignores a missing file and missing keys; a lookup of an absent
\* key raises KeyError where it is evaluated.
Configs ==
    { [k \in K |-> FullConfig[k]] :
        K \in { DOMAIN FullConfig,
                DOMAIN FullConfig \ {"USGS.url"},
                DOMAIN FullConfig \ {"PORTAL.username"},
                DOMAIN FullConfig \ {"PORTAL.item_id"},
                {} } }

PortalPassword == "pw1"
StalePassword  == "pw0"

\* The secret store: reachable or not, and its entries <<service, account, secret>>.
KeyringStates ==
    { [locked |-> FALSE, entries |-> {<<"PORTAL", Username, PortalPassword>>}],
      [locked |-> FALSE, entries |-> {<<"PORTAL", Username, StalePassword>>}],
      [locked |-> FALSE, entries |-> {<<"OTHER", Username, StalePassword>>}],
      [locked |-> FALSE, entries |-> {}],
      [locked |-> TRUE,  entries |-> {<<"PORTAL", Username, PortalPassword>>}] }

Secrets == { e[3] : e \in UNION { k.entries : k \in KeyringStates } }

\* Response bodies: two spellings of one JSON document, an HTML page, nothing.
BodyCompact == <<"{", "\"a\"", ":", "1", "}">>
BodySpaced  == <<"{", "\"a\"", ":", " ", "1", "}">>
BodyHtml    == <<"<html>">>
BodyEmpty   == <<>>
Bodies      == {BodyCompact, BodySpaced, BodyHtml, BodyEmpty}

\* Final status codes the source may answer with (redirects that requests
\* follows never reach the caller; a 300 without Location does).
Statuses == {200, 204, 300, 404, 500}

Responses ==
    [kind : {"http"}, status : Statuses, body : Bodies, error : {""}]
    \cup [kind : {"transport"}, status : {0}, body : {BodyEmpty},
          error : {"ConnectionError", "ChunkedEncodingError"}]

NoResponse == [kind |-> "none", status |-> 0, body |-> BodyEmpty, error |-> ""]

GeojsonPath == "01 Projects and Data/Data/Volcano.geojson"

\* What Volcano.geojson may hold before a run: nothing, or an earlier dump.
PriorFiles == { <<"absent">>, <<"{", "\"a\"", ":", " ", "0", "}">>,
                <<"{", "\"a\"", ":", " ", "1", "}">> }

----------------------------------------------------------------------------
(* Exceptions and output records.                                          *)

Exc(type, msg) == [type |-> type, msg |-> msg]
NoExc == Exc("", <<>>)

\* requests.exceptions: the classes derived from RequestException.
IsRequestException(type) ==
    type \in {"HTTPError", "ConnectionError", "ChunkedEncodingError",
              "RequestsJSONDecodeError"}

LogRecord(level, msg, exc_info, e) ==
    [level |-> level, msg |-> msg, exc_info |-> exc_info, exc |-> e]

----------------------------------------------------------------------------
(* JSON: response.json() and json.dump.                                    *)

RECURSIVE StripSpaces(_)
StripSpaces(text) ==
    IF text = <<>> THEN <<>>
    ELSE IF Head(text) = " " THEN StripSpaces(Tail(text))
    ELSE <<Head(text)>> \o StripSpaces(Tail(text))

\* The documents the bodies above can denote, as their significant tokens.
JsonDocuments == { <<"{", "\"a\"", ":", "1", "}">> }

IsJson(body) == StripSpaces(body) \in JsonDocuments

\* response.json(): the document a body denotes; whitespace is not part of it.
JsonLoads(body) == StripSpaces(body)

\* json.dump with the default separators (", ", ": ").
RECURSIVE JsonDump(_)
JsonDump(doc) ==
    IF doc = <<>> THEN <<>>
    ELSE IF Head(doc) = ":" THEN <<":", " ">> \o JsonDump(Tail(doc))
    ELSE <<Head(doc)>> \o JsonDump(Tail(doc))

\* The exception response.json() raises on a body that is not JSON: requests
\* 2.27 and later raise requests.exceptions.JSONDecodeError, a
\* RequestException; earlier builds raise json's own ValueError subclass.
JsonErrorType(build) == IF build THEN "RequestsJSONDecodeError" ELSE "ValueError"

\* Response.raise_for_status raises HTTPError for 4xx and 5xx only.
RaiseForStatus(status) == 400 <= status /\ status < 600

\* The fetch with response.text in place of response.json(): no body is refused.
FetchError_NoJsonCheck(resp, build) ==
    IF resp.kind = "transport" THEN Exc(resp.error, <<"Connection aborted">>)
    ELSE IF RaiseForStatus(resp.status)
         THEN Exc("HTTPError", <<ToString(resp.status), " Error for url: ", SourceUrl>>)
    ELSE Exc("", <<>>)

\* requests.get(url), raise_for_status(), response.json(): the exception raised,
\* NoExc when there is none.
FetchError(resp, build) ==
    IF resp.kind = "transport" THEN Exc(resp.error, <<"Connection aborted">>)
    ELSE IF RaiseForStatus(resp.status)
         THEN Exc("HTTPError", <<ToString(resp.status), " Error for url: ", SourceUrl>>)
    ELSE IF ~IsJson(resp.body)
         THEN Exc(JsonErrorType(build), <<"Expecting value: line 1 column 1 (char 0)">>)
    ELSE NoExc

----------------------------------------------------------------------------
(* The script's module-level names, and calls.                             *)

DefinedNames == {"sign_in_to_gis", "get_portal_item", "ingest", "replace_flayer"}

\* The name main calls after get_portal_item.
OverwriteCallee == "replace_feature_layer"

\* An exception leaves the function it was raised in and reaches main's
\* try block.
Raise(e, step) ==
    /\ exc' = e
    /\ failedAt' = step
    /\ pc' = "handler"

Init ==
    /\ pc = "main"
    /\ config \in Configs
    /\ keyring \in KeyringStates
    /\ jsonErrorIsRequestException \in BOOLEAN
    /\ file0 \in PriorFiles
    /\ file = file0
    /\ log = <<>>
    /\ stdout = <<>>
    /\ exitStatus = 0
    /\ clock = 0
    /\ start = 0
    /\ end = 0
    /\ data = <<>>
    /\ geojson_file = None
    /\ password = None
    /\ portal = None
    /\ feature_layer = None
    /\ exc = NoExc
    /\ failedAt = "none"
    /\ caughtBy = ""
    /\ response = NoResponse
    /\ itemOutcome = ""
    /\ calls = [get |-> 0, keyring |-> 0, signin |-> 0, item |-> 0, overwrite |-> 0]
    /\ signInArg = <<>>
    /\ overwriteArg = <<>>

\* main: start = datetime.datetime.now(), then the call of ingest().
MainStart ==
    /\ pc = "main"
    /\ start' = clock
    /\ pc' = "ingest"
    /\ UNCHANGED <<env, file, log, stdout, exitStatus, clock, end, data,
                   geojson_file, password, portal, feature_layer, exc, failedAt,
                   caughtBy, response, itemOutcome, calls, signInArg, overwriteArg>>

\* ingest: the except clause catches ChunkedEncodingError and RequestException.
IngestCatches(e) == IsRequestException(e.type)

\* ingest's except clause, without its sys.exit(1): control falls through to
\* the write, which truncates the file and then finds data unbound.
IngestExcept_NoExit(e) ==
    /\ log' = Append(log, LogRecord("ERROR", <<"Failed to download data: ">> \o e.msg,
                                    FALSE, NoExc))
    /\ stdout' = Append(stdout, <<"Writing geojson...">>)
    /\ file' = <<>>
    /\ Raise(Exc("UnboundLocalError", <<"data">>), "persist")
    /\ UNCHANGED <<exitStatus, caughtBy, data, geojson_file>>

\* ingest's except clause, retrying the request once instead of exiting.
IngestExcept_Retry(e) ==
    /\ log' = Append(log, LogRecord("ERROR", <<"Failed to download data: ">> \o e.msg,
                                    FALSE, NoExc))
    /\ IF calls.get < 1
       THEN /\ pc' = "ingest"
            /\ UNCHANGED <<exitStatus, exc, failedAt, caughtBy>>
       ELSE /\ exitStatus' = 1
            /\ exc' = e
            /\ failedAt' = "fetch"
            /\ caughtBy' = "ingest"
            /\ pc' = "done"
    /\ UNCHANGED <<file, stdout, data, geojson_file>>

\* ingest's except clause: logging.error(...), sys.exit(1). SystemExit is not an
\* Exception, so main's handler lets it through and the process exits with 1.
IngestExcept(e) ==
    /\ log' = Append(log, LogRecord("ERROR", <<"Failed to download data: ">> \o e.msg,
                                    FALSE, NoExc))
    /\ exitStatus' = 1
    /\ exc' = e
    /\ failedAt' = "fetch"
    /\ caughtBy' = "ingest"
    /\ pc' = "done"
    /\ UNCHANGED <<file, stdout, data, geojson_file>>

\* ingest, up to the end of its try statement: the URL lookup, the GET, the
\* status check and the JSON parse.
IngestGet ==
    /\ pc = "ingest"
    /\ IF "USGS.url" \notin DOMAIN config
       THEN /\ Raise(Exc("KeyError", <<"'USGS'">>), "settings")
            /\ UNCHANGED <<file, log, stdout, exitStatus, clock, data, geojson_file,
                           caughtBy, response, calls>>
       ELSE \E resp \in Responses, d \in 1..MaxStepTime :
            /\ calls' = [calls EXCEPT !.get = @ + 1]
            /\ clock' = clock + d
            /\ response' = resp
            /\ LET e == FetchError(resp, jsonErrorIsRequestException) IN
               IF e # NoExc /\ IngestCatches(e) THEN IngestExcept(e)
               ELSE IF e # NoExc
               THEN /\ Raise(e, "fetch")
                    /\ UNCHANGED <<file, log, stdout, exitStatus, data, geojson_file,
                                   caughtBy>>
               ELSE /\ data' = JsonLoads(resp.body)
                    /\ pc' = "ingest_write"
                    /\ UNCHANGED <<file, log, stdout, exitStatus, geojson_file, exc,
                                   failedAt, caughtBy>>
    /\ UNCHANGED <<env, start, end, password, portal, feature_layer, itemOutcome,
                   signInArg, overwriteArg>>

\* ingest, after the try statement: open(geojson_path, 'w'), json.dump, return.
\* open may fail (the file is untouched); json.dump may fail after open has
\* truncated the file (disk full).
IngestWrite ==
    /\ pc = "ingest_write"
    /\ \E disk \in {"ok", "open fails", "dump fails"} :
        CASE disk = "ok" ->
                /\ file' = JsonDump(data)
                /\ stdout' = stdout \o << <<"Writing geojson...">>, <<"Done.">> >>
                /\ geojson_file' = GeojsonPath
                /\ pc' = "main_creds"
                /\ UNCHANGED <<exc, failedAt>>
          [] disk = "open fails" ->
                /\ stdout' = Append(stdout, <<"Writing geojson...">>)
                /\ Raise(Exc("OSError", <<"Permission denied: ", GeojsonPath>>), "persist")
                /\ UNCHANGED <<file, geojson_file>>
          [] disk = "dump fails" ->
                /\ stdout' = Append(stdout, <<"Writing geojson...">>)
                /\ file' = <<>>
                /\ Raise(Exc("OSError", <<"No space left on device">>), "persist")
                /\ UNCHANGED geojson_file
    /\ UNCHANGED <<env, log, exitStatus, clock, start, end, data, password, portal,
                   feature_layer, caughtBy, response, itemOutcome, calls, signInArg,
                   overwriteArg>>

\* keyring.get_password(service, account): the stored secret, None when the
\* store holds no such entry.
KeyringGetPassword(k, service, account) ==
    IF \E e \in k.entries : e[1] = service /\ e[2] = account
    THEN (CHOOSE e \in k.entries : e[1] = service /\ e[2] = account)[3]
    ELSE None

\* main: the arguments of sign_in_to_gis, evaluated left to right.
MainCreds ==
    /\ pc = "main_creds"
    /\ IF "PORTAL.url" \notin DOMAIN config \/ "PORTAL.username" \notin DOMAIN config
       THEN /\ Raise(Exc("KeyError", IF "PORTAL.url" \notin DOMAIN config
                                      THEN <<"'url'">> ELSE <<"'username'">>),
                      "settings")
            /\ UNCHANGED <<password, calls>>
       ELSE /\ calls' = [calls EXCEPT !.keyring = @ + 1]
            /\ IF keyring.locked
               THEN /\ Raise(Exc("KeyringError", <<"Failed to unlock the collection">>),
                             "credential")
                    /\ UNCHANGED password
               ELSE /\ password' = KeyringGetPassword(keyring, "PORTAL",
                                                      config["PORTAL.username"])
                    /\ pc' = "sign_in"
                    /\ UNCHANGED <<exc, failedAt>>
    /\ UNCHANGED <<env, file, log, stdout, exitStatus, clock, start, end, data,
                   geojson_file, portal, feature_layer, caughtBy, response,
                   itemOutcome, signInArg, overwriteArg>>

\* sign_in_to_gis with the password in its first printed line.
SignInBanner_WithPassword(portal_url, username, pw) ==
    <<"Signing into ", portal_url, " as ", username, ":", pw, "...">>

\* sign_in_to_gis: print(f'Signing into {portal_url}...').
SignInBanner(portal_url, username, pw) == <<"Signing into ", portal_url, "...">>

\* sign_in_to_gis: GIS(portal_url, username, password). The portal accepts its
\* own password; what the library does with a username and no password (a
\* prompt, an anonymous session) is not the script's to decide. The library's
\* exception names the failure and the URL, not the credentials.
SignInToGis ==
    /\ pc = "sign_in"
    /\ calls' = [calls EXCEPT !.signin = @ + 1]
    /\ signInArg' = <<config["PORTAL.url"], config["PORTAL.username"], password>>
    /\ \E reachable \in BOOLEAN, withoutPassword \in BOOLEAN, d \in 1..MaxStepTime :
        /\ clock' = clock + d
        /\ IF reachable /\ (password = PortalPassword
                            \/ (password = None /\ withoutPassword))
           THEN /\ stdout' = stdout \o
                        << SignInBanner(config["PORTAL.url"], config["PORTAL.username"],
                                        password),
                           <<"Done.">> >>
                /\ portal' = "session"
                /\ pc' = "main_item"
                /\ UNCHANGED <<exc, failedAt>>
           ELSE /\ stdout' = Append(stdout,
                        SignInBanner(config["PORTAL.url"], config["PORTAL.username"],
                                     password))
                /\ Raise(Exc("Exception",
                             IF reachable THEN <<"Invalid username or password">>
                             ELSE <<"A general error occurred: ", config["PORTAL.url"]>>),
                         "signin")
                /\ UNCHANGED portal
    /\ UNCHANGED <<env, file, log, exitStatus, start, end, data, geojson_file,
                   password, feature_layer, caughtBy, response, itemOutcome,
                   overwriteArg>>

\* get_portal_item taking "no item" for an answer.
PortalItemMissing_Never(portal_item) == FALSE

\* get_portal_item: if portal_item is None.
PortalItemMissing(portal_item) == portal_item = None

\* main: get_portal_item(portal, config['PORTAL']['item_id']). Whatever is
\* raised inside the function is logged there and raised again.
GetPortalItem ==
    /\ pc = "main_item"
    /\ IF "PORTAL.item_id" \notin DOMAIN config
       THEN /\ Raise(Exc("KeyError", <<"'item_id'">>), "settings")
            /\ UNCHANGED <<log, clock, feature_layer, itemOutcome, calls>>
       ELSE \E answer \in {"found", "none", "error"}, d \in 1..MaxStepTime :
            LET item_id == config["PORTAL.item_id"]
                portal_item == IF answer = "found" THEN item_id ELSE None
                e == IF answer = "error"
                     THEN Exc("Exception", <<"Item lookup failed">>)
                     ELSE Exc("Exception", <<"Portal item ", item_id, " not found">>)
            IN  /\ calls' = [calls EXCEPT !.item = @ + 1]
                /\ clock' = clock + d
                /\ itemOutcome' = answer
                /\ IF answer = "error" \/ PortalItemMissing(portal_item)
                   THEN /\ log' = Append(log,
                                LogRecord("ERROR",
                                          <<"Failed to retrieve portal item: ">> \o e.msg,
                                          FALSE, NoExc))
                        /\ Raise(e, "item")
                        /\ UNCHANGED feature_layer
                   ELSE /\ feature_layer' = portal_item
                        /\ pc' = "main_overwrite"
                        /\ UNCHANGED <<log, exc, failedAt>>
    /\ UNCHANGED <<env, file, stdout, exitStatus, start, end, data, geojson_file,
                   password, portal, caughtBy, response, signInArg, overwriteArg>>

\* main: the call after get_portal_item, then end = now() and the "Total time"
\* entry. The callee is looked up among the module's names when the line runs;
\* a name that is not defined raises NameError. A defined callee runs
\* replace_flayer: FeatureLayerCollection.fromitem(item).manager.overwrite(path).
MainOverwrite ==
    /\ pc = "main_overwrite"
    /\ IF OverwriteCallee \notin DefinedNames
       THEN /\ Raise(Exc("NameError",
                         <<"name '", OverwriteCallee, "' is not defined">>), "overwrite")
            /\ UNCHANGED <<log, stdout, clock, end, calls, overwriteArg>>
       ELSE \E accepted \in BOOLEAN, d \in 1..MaxStepTime :
            /\ calls' = [calls EXCEPT !.overwrite = @ + 1]
            /\ overwriteArg' = <<feature_layer, geojson_file>>
            /\ clock' = clock + d
            /\ IF accepted
               THEN /\ stdout' = stdout \o
                            << <<"Overwriting feature layer...">>, <<"Done.">> >>
                    /\ end' = clock'
                    /\ log' = Append(log,
                            LogRecord("INFO", <<"Total time: ", ToString(clock' - start)>>,
                                      FALSE, NoExc))
                    /\ pc' = "done"
                    /\ UNCHANGED <<exc, failedAt>>
               ELSE /\ stdout' = Append(stdout, <<"Overwriting feature layer...">>)
                    /\ Raise(Exc("Exception", <<"Overwrite rejected by the portal">>),
                             "overwrite")
                    /\ UNCHANGED <<log, end>>
    /\ UNCHANGED <<env, file, exitStatus, start, data, geojson_file, password, portal,
                   feature_layer, caughtBy, response, itemOutcome, signInArg>>

\* The handler logging with logging.error: the message alone.
HandlerLogRecord_NoTrace(e) ==
    LogRecord("ERROR", <<"Unhandled exception occurred">>, FALSE, Exc("", <<>>))

\* main's handler: logging.exception("Unhandled exception occurred") appends the
\* message and the traceback of the exception being handled.
HandlerLogRecord(e) == LogRecord("ERROR", <<"Unhandled exception occurred">>, TRUE, e)

\* main's handler: print(f"{e} (see log for details)").
HandlerMessage(e) == e.msg \o <<" (see log for details)">>

\* main: except Exception as e. Nothing follows the handler: the script ends
\* and the interpreter exits with the status it has, 0.
MainHandler ==
    /\ pc = "handler"
    /\ log' = Append(log, HandlerLogRecord(exc))
    /\ stdout' = Append(stdout, HandlerMessage(exc))
    /\ caughtBy' = "main"
    /\ pc' = "done"
    /\ UNCHANGED <<env, file, exitStatus, clock, start, end, data, geojson_file,
                   password, portal, feature_layer, exc, failedAt, response,
                   itemOutcome, calls, signInArg, overwriteArg>>

Next ==
    \/ MainStart
    \/ IngestGet
    \/ IngestWrite
    \/ MainCreds
    \/ SignInToGis
    \/ GetPortalItem
    \/ MainOverwrite
    \/ MainHandler

Spec == Init /\ [][Next]_vars

----------------------------------------------------------------------------
(* The run's state in the terms of the design: what main holds so far.     *)

RunState ==
    IF failedAt # "none" THEN "FAILED"
    ELSE IF pc = "done" THEN "OVERWRITTEN"
    ELSE IF feature_layer # None THEN "ITEM_RESOLVED"
    ELSE IF portal # None THEN "AUTHENTICATED"
    ELSE IF geojson_file # None THEN "FETCHED"
    ELSE "START"

Terminated == pc = "done"

----------------------------------------------------------------------------
(* Properties.                                                             *)

\* C1: when the run has ended, its exit status is 0 if and only if no step
\* failed; a failure at any step, the ones main's handler catches included,
\* ends the run with a non-zero status.
C1_ExitZeroIffNoFailure ==
    Terminated => (exitStatus = 0 <=> failedAt = "none")

\* C2: a run whose fetch, credential lookup, sign-in and item resolution all
\* succeeded has invoked the overwrite exactly once, with the resolved item and
\* the path written by this run, and, when nothing failed, ends OVERWRITTEN.
C2_OverwriteInvokedOnce ==
    (/\ Terminated
     /\ geojson_file # None
     /\ password # None
     /\ portal # None
     /\ feature_layer # None)
    => /\ calls.overwrite = 1
       /\ overwriteArg = <<feature_layer, geojson_file>>
       /\ (failedAt = "none" => RunState = "OVERWRITTEN")

\* The run is over or on its way to main's handler, and ends non-zero.
GetConsequence ==
    /\ pc \in {"handler", "done"}
    /\ Terminated => exitStatus # 0
    /\ calls.get = 1
    /\ file = file0
    /\ calls.keyring = 0
    /\ calls.signin = 0

\* C3 (as stated): when the GET fails with a status outside 2xx or with a
\* transport error, the run ends with a non-zero status after one request, the
\* file as it was, and no portal sign-in.
C3_Non2xxFailsTheRun ==
    (\/ response.kind = "transport"
     \/ response.kind = "http" /\ response.status \notin 200..299)
    => GetConsequence

\* C3 (amended): when the GET fails with a 4xx or 5xx status or with a transport
\* error, the run ends with a non-zero status after one request, the file as it
\* was, and no portal sign-in.
C3_ErrorStatusFailsTheRun ==
    (\/ response.kind = "transport"
     \/ response.kind = "http" /\ response.status \in 400..599)
    => GetConsequence

C3_Witness ==
    /\ Terminated
    /\ response.kind = "http"
    /\ response.status = 500
    /\ file0 # <<"absent">>
    /\ Len(log) = 1

\* C4: when the secret store has no entry for (PORTAL, configured username), the
\* run fails at the credential lookup and calls the portal for nothing: no
\* sign-in, no item lookup, no overwrite.
C4_NoPortalCallWithoutCredential ==
    (/\ calls.keyring = 1
     /\ ~keyring.locked
     /\ ~\E e \in keyring.entries : e[1] = "PORTAL" /\ e[2] = Username)
    => /\ failedAt = "credential"
       /\ calls.signin = 0
       /\ calls.item = 0
       /\ calls.overwrite = 0

C6_MalformedBodyLeavesFile ==
    (/\ response.kind = "http"
     /\ response.status \in 200..299
     /\ ~IsJson(response.body))
    => /\ failedAt = "fetch"
       /\ pc \in {"handler", "done"}
       /\ geojson_file = None
       /\ file = file0

C6_Witness ==
    /\ Terminated
    /\ response.kind = "http"
    /\ response.status = 200
    /\ response.body = BodyHtml
    /\ file0 # <<"absent">>
    /\ failedAt = "fetch"

PortalRefusedOverwrite == exc = Exc("Exception", <<"Overwrite rejected by the portal">>)

\* C7: a run in which every step succeeds ends with exactly one log entry, the
\* elapsed time between its start and end timestamps, and no failure entry.
C7_SuccessLogsElapsedOnce ==
    (/\ Terminated
     /\ geojson_file # None
     /\ password = PortalPassword
     /\ portal # None
     /\ feature_layer # None
     /\ ~PortalRefusedOverwrite)
    => /\ Len(log) = 1
       /\ log[1] = LogRecord("INFO", <<"Total time: ", ToString(end - start)>>,
                             FALSE, NoExc)

FailureLoggedInFull ==
    /\ Len(log) >= 1
    /\ log[Len(log)].exc_info
    /\ log[Len(log)].exc = exc
    /\ Len(stdout) >= 1
    /\ stdout[Len(stdout)] = exc.msg \o <<" (see log for details)">>

Contains(text, token) == \E i \in 1..Len(text) : text[i] = token

\* C9: no secret of the store appears in a log entry (its message or its
\* traceback), in a printed line or in the dataset file, on any path; the
\* password reaches only the sign-in call, as its third argument.
C9_PasswordNeverWritten ==
    /\ \A s \in Secrets :
        /\ \A i \in 1..Len(log) :
              ~Contains(log[i].msg, s) /\ ~Contains(log[i].exc.msg, s)
        /\ \A i \in 1..Len(stdout) : ~Contains(stdout[i], s)
        /\ ~Contains(file, s)
        /\ \A i \in 1..Len(overwriteArg) : overwriteArg[i] # s
    /\ signInArg # <<>> => signInArg = <<PortalUrl, Username, password>>

C9_Witness ==
    /\ Terminated
    /\ password \in Secrets
    /\ signInArg = <<PortalUrl, Username, password>>
    /\ failedAt = "signin"
    /\ caughtBy = "main"

ExternalOps == {"get", "signin", "item", "overwrite"}

StateOrder ==
    { <<"START", "FETCHED">>, <<"FETCHED", "AUTHENTICATED">>,
      <<"AUTHENTICATED", "ITEM_RESOLVED">>, <<"ITEM_RESOLVED", "OVERWRITTEN">> }
    \cup { <<s, "FAILED">> :
             s \in {"START", "FETCHED", "AUTHENTICATED", "ITEM_RESOLVED"} }

InvokedInOrder ==
    /\ \A op \in ExternalOps : calls[op] <= 1
    /\ calls.signin > 0 => calls.get = 1 /\ geojson_file # None
    /\ calls.item > 0 => calls.signin = 1 /\ portal # None
    /\ calls.overwrite > 0 => calls.item = 1 /\ feature_layer # None
    /\ RunState \in {"START", "FETCHED", "AUTHENTICATED", "ITEM_RESOLVED"} =>
          /\ calls.get = 1 <=> (pc \notin {"main", "ingest"})
          /\ calls.signin = 1 <=> (portal # None)
          /\ calls.item = 1 <=> (feature_layer # None)
          /\ calls.overwrite = 0

\* C10: a run moves through START, FETCHED, AUTHENTICATED, ITEM_RESOLVED,
\* OVERWRITTEN in that order or leaves for FAILED; each external operation is
\* invoked at most once and only when every earlier one has succeeded; in
\* FAILED or OVERWRITTEN nothing external is invoked any more.
C10_StateMachine ==
    /\ []InvokedInOrder
    /\ [][/\ RunState' # RunState => <<RunState, RunState'>> \in StateOrder
          /\ RunState \in {"FAILED", "OVERWRITTEN"} =>
                \A op \in ExternalOps : calls'[op] = calls[op]
          /\ \A op \in ExternalOps : calls'[op] \in {calls[op], calls[op] + 1}]_vars

C10_Witness ==
    /\ Terminated
    /\ RunState = "FAILED"
    /\ failedAt = "overwrite"
    /\ calls.get = 1 /\ calls.signin = 1 /\ calls.item = 1

====
